---------------------------- MODULE Spec2Model ----------------------------
(***************************************************************************)
(* Model of src/src/HomePage/Home.js: an afrobeats chord progression and   *)
(* melody generator that exports a MIDI track.                             *)
(*                                                                         *)
(* Text is modelled as sequences of one-character strings, so that the     *)
(* string operations of the code (trim, split, slice, replace, template    *)
(* literals) are computed character by character.  Input roots are         *)
(* pitch-class spellings: the modelled inputs carry no octave digits.      *)
(***************************************************************************)
EXTENDS Integers, Sequences, FiniteSets, TLC

VARIABLES
    scaleInput,   \* useState("C major"): text of the input box
    progression,  \* useState([]): the displayed progression
    rng,          \* state of the ambient random number generator
    alerts,       \* number of alert() calls so far
    lastAlert,    \* message of the last alert() ("" if none)
    tracks,       \* number of MidiWriter.Track objects constructed
    download,     \* last file handed to link.click(): [filename, track]
    downloads,    \* number of link.click() calls
    displays,     \* number of setProgression() calls
    theoryCall,   \* frame of a getDiatonicChords / generateAfrobeatsProgression call
    invertCall,   \* frame of an invertChord call
    melodyCall,   \* frame of a generateAfrobeatMelody call
    fileCall      \* frame of a filename computation

vars == <<scaleInput, progression, rng, alerts, lastAlert, tracks, download,
          downloads, displays, theoryCall, invertCall, melodyCall, fileCall>>

homeVars == <<scaleInput, progression, rng, alerts, lastAlert, tracks,
              download, downloads, displays>>

(***************************************************************************)
(* Bounds of the model.                                                    *)
(***************************************************************************)
\* Resolution of the random source: Math.random() yields s / RandMod.
RandMod == 64
\* Handler invocations explored per behaviour.
MaxGenerations == 2
\* Largest inversion count given to invertChord on its own.
MaxInversion == 17
\* Largest numberOfBars given to generateAfrobeatMelody on its own.
MaxBars == 2

(***************************************************************************)
(* Characters and strings.                                                 *)
(***************************************************************************)
UpperCase == <<"A","B","C","D","E","F","G","H","I","J","K","L","M",
               "N","O","P","Q","R","S","T","U","V","W","X","Y","Z">>
LowerCase == <<"a","b","c","d","e","f","g","h","i","j","k","l","m",
               "n","o","p","q","r","s","t","u","v","w","x","y","z">>
Digits == <<"0","1","2","3","4","5","6","7","8","9">>

IndexIn(c, s) == IF \E i \in 1..Len(s) : s[i] = c
                 THEN CHOOSE i \in 1..Len(s) : s[i] = c /\ \A j \in 1..(i-1) : s[j] # c
                 ELSE 0

ToLowerChar(c) == IF IndexIn(c, UpperCase) > 0 THEN LowerCase[IndexIn(c, UpperCase)] ELSE c
ToUpperChar(c) == IF IndexIn(c, LowerCase) > 0 THEN UpperCase[IndexIn(c, LowerCase)] ELSE c

\* String.prototype.toLowerCase
ToLowerCase(s) == [i \in 1..Len(s) |-> ToLowerChar(s[i])]

\* String.prototype.trim (the only white space of the modelled inputs is " ")
RECURSIVE TrimStart(_)
TrimStart(s) == IF Len(s) > 0 /\ s[1] = " " THEN TrimStart(Tail(s)) ELSE s
RECURSIVE TrimEnd(_)
TrimEnd(s) == IF Len(s) > 0 /\ s[Len(s)] = " " THEN TrimEnd(SubSeq(s, 1, Len(s) - 1)) ELSE s
Trim(s) == TrimEnd(TrimStart(s))

\* String.prototype.split(" "): "" gives [""], "a  b" gives ["a", "", "b"]
RECURSIVE Split(_)
Split(s) == LET i == IndexIn(" ", s)
            IN IF i = 0 THEN <<s>>
               ELSE <<SubSeq(s, 1, i - 1)>> \o Split(SubSeq(s, i + 1, Len(s)))

\* Array.prototype.join(sep)
RECURSIVE Join(_, _)
Join(parts, sep) == IF Len(parts) = 0 THEN <<>>
                    ELSE IF Len(parts) = 1 THEN parts[1]
                    ELSE parts[1] \o sep \o Join(Tail(parts), sep)

\* Number to its decimal text, as string concatenation renders it
RECURSIVE NatToStr(_)
NatToStr(n) == IF n < 10 THEN <<Digits[n + 1]>>
               ELSE NatToStr(n \div 10) \o <<Digits[(n % 10) + 1]>>

Repeat(c, n) == [i \in 1..n |-> c]

(***************************************************************************)
(* The tonal library: notes, intervals, scales and chords.                 *)
(* A pitch class is [step |-> 0..6 (C..B), alt |-> sharps minus flats].    *)
(***************************************************************************)
Letters == <<"C","D","E","F","G","A","B">>
StepSemitones == <<0, 2, 4, 5, 7, 9, 11>>
SharpNames == << <<"C">>, <<"C","#">>, <<"D">>, <<"D","#">>, <<"E">>, <<"F">>,
                 <<"F","#">>, <<"G">>, <<"G","#">>, <<"A">>, <<"A","#">>, <<"B">> >>
FlatNames == << <<"C">>, <<"D","b">>, <<"D">>, <<"E","b">>, <<"E">>, <<"F">>,
                <<"G","b">>, <<"G">>, <<"A","b">>, <<"A">>, <<"B","b">>, <<"B">> >>

NoNote == [empty |-> TRUE, step |-> 0, alt |-> 0]

\* Length of the accidental run (#..., b... or x...) starting at position 2
RECURSIVE AccRun(_, _, _)
AccRun(s, c, i) == IF i <= Len(s) /\ s[i] = c THEN 1 + AccRun(s, c, i + 1) ELSE 0

AccLen(s) == IF Len(s) < 2 THEN 0
             ELSE IF s[2] \in {"#", "b", "x"} THEN AccRun(s, s[2], 2) ELSE 0

\* note(name): letter, accidentals and nothing else (no octave in this model)
ParseNote(s) ==
    IF Len(s) = 0 \/ IndexIn(ToUpperChar(s[1]), Letters) = 0 THEN NoNote
    ELSE IF 1 + AccLen(s) # Len(s) THEN NoNote
    ELSE [empty |-> FALSE,
          step |-> IndexIn(ToUpperChar(s[1]), Letters) - 1,
          alt |-> IF AccLen(s) = 0 THEN 0
                  ELSE IF s[2] = "#" THEN AccLen(s)
                  ELSE IF s[2] = "x" THEN 2 * AccLen(s)
                  ELSE 0 - AccLen(s)]

\* The name of a pitch class: letter, then "#" or "b" repeated
NoteName(n) == <<Letters[n.step + 1]>> \o
               (IF n.alt < 0 THEN Repeat("b", 0 - n.alt) ELSE Repeat("#", n.alt))

Chroma(n) == (StepSemitones[n.step + 1] + n.alt + 120) % 12

\* Note.simplify: the enharmonic name with at most one accidental, sharps
\* kept for a sharpened note; "" for what is not a note
NoteSimplify(s) ==
    LET n == ParseNote(s)
    IN IF n.empty THEN <<>>
       ELSE IF n.alt > 0 THEN SharpNames[Chroma(n) + 1]
       ELSE FlatNames[Chroma(n) + 1]

\* An interval is [steps, semis]
I1P == [steps |-> 0, semis |-> 0]
I2M == [steps |-> 1, semis |-> 2]
I3m == [steps |-> 2, semis |-> 3]
I3M == [steps |-> 2, semis |-> 4]
I4P == [steps |-> 3, semis |-> 5]
I5d == [steps |-> 4, semis |-> 6]
I5P == [steps |-> 4, semis |-> 7]
I6m == [steps |-> 5, semis |-> 8]
I6M == [steps |-> 5, semis |-> 9]
I7m == [steps |-> 6, semis |-> 10]
I7M == [steps |-> 6, semis |-> 11]

\* transpose(note, interval) on pitch classes, keeping the letter arithmetic
Transpose(n, iv) ==
    LET target == n.step + iv.steps
        step2 == target % 7
        natural == StepSemitones[step2 + 1] + 12 * (target \div 7)
    IN [empty |-> FALSE, step |-> step2,
        alt |-> StepSemitones[n.step + 1] + n.alt + iv.semis - natural]

S_major == <<"m","a","j","o","r">>
S_minor == <<"m","i","n","o","r">>
S_majorPentatonic == S_major \o <<" ","p","e","n","t","a","t","o","n","i","c">>
S_minorPentatonic == S_minor \o <<" ","p","e","n","t","a","t","o","n","i","c">>
S_maj == <<"m","a","j">>
S_min == <<"m","i","n">>
S_dim == <<"d","i","m">>

\* The scale dictionary: intervals of a scale type (<<>> for an unknown type)
ScaleIntervals(type) ==
    IF type = S_major THEN <<I1P, I2M, I3M, I4P, I5P, I6M, I7M>>
    ELSE IF type = S_minor THEN <<I1P, I2M, I3m, I4P, I5P, I6m, I7m>>
    ELSE IF type = S_majorPentatonic THEN <<I1P, I2M, I3M, I5P, I6M>>
    ELSE IF type = S_minorPentatonic THEN <<I1P, I3m, I4P, I5P, I7m>>
    ELSE <<>>

\* Scale.get(name).notes: name is "<tonic> <type>"; no notes without a tonic
ScaleNotes(name) ==
    LET i == IndexIn(" ", name)
        tonic == ParseNote(SubSeq(name, 1, i - 1))
        ivs == ScaleIntervals(SubSeq(name, i + 1, Len(name)))
    IN IF i = 0 \/ tonic.empty THEN <<>>
       ELSE [k \in 1..Len(ivs) |-> NoteName(Transpose(tonic, ivs[k]))]

\* The chord dictionary: intervals of a chord type alias
ChordIntervals(alias) ==
    IF alias = S_maj THEN <<I1P, I3M, I5P>>
    ELSE IF alias = S_min THEN <<I1P, I3m, I5P>>
    ELSE IF alias = S_dim THEN <<I1P, I3m, I5d>>
    ELSE <<>>

\* Chord.getChord(typeName, tonic).symbol
ChordSymbol(typeName, tonic) ==
    LET n == ParseNote(tonic)
    IN IF n.empty \/ Len(ChordIntervals(typeName)) = 0 THEN <<>>
       ELSE NoteName(n) \o typeName

\* Chord.get(symbol).notes: the symbol is a note name followed by an alias
ChordNotes(symbol) ==
    LET k == IF Len(symbol) = 0 THEN 0 ELSE 1 + AccLen(symbol)
        tonic == ParseNote(SubSeq(symbol, 1, k))
        ivs == ChordIntervals(SubSeq(symbol, k + 1, Len(symbol)))
    IN IF tonic.empty THEN <<>>
       ELSE [j \in 1..Len(ivs) |-> NoteName(Transpose(tonic, ivs[j]))]

(***************************************************************************)
(* Math.random(): the generator state s stands for the value s / RandMod   *)
(* of [0, 1); each call advances the state.                                *)
(***************************************************************************)
NextRng(s) == (s * 37 + 11) % RandMod

\* Math.floor(Math.random() * n)
RandomInt(s, n) == (s * n) \div RandMod

\* Math.random() < 0.6
RandomBelow60(s) == s * 10 < 6 * RandMod


(***************************************************************************)
(* getDiatonicChords: the diatonic triads of a scale.                      *)
(***************************************************************************)
MajorTriads == <<S_maj, S_min, S_min, S_maj, S_maj, S_min, S_dim>>
MinorTriads == <<S_min, S_dim, S_maj, S_min, S_min, S_maj, S_maj>>

\* A variant that takes the major qualities for every scale type
getDiatonicChords_MajorOnly(scaleRoot, scaleType) ==
    LET notes == ScaleNotes(scaleRoot \o <<" ">> \o scaleType)
    IN IF Len(notes) = 0 THEN <<>>
       ELSE [i \in 1..Len(notes) |-> ChordSymbol(MajorTriads[i], notes[i])]

getDiatonicChords(scaleRoot, scaleType) ==
    LET notes == ScaleNotes(scaleRoot \o <<" ">> \o scaleType)
        triads == IF scaleType = S_major THEN MajorTriads ELSE MinorTriads
    IN IF Len(notes) = 0 THEN <<>>
       ELSE [i \in 1..Len(notes) |-> ChordSymbol(triads[i], notes[i])]

(***************************************************************************)
(* generateAfrobeatsProgression: s is the state of the random source at    *)
(* the one Math.random() call.                                             *)
(***************************************************************************)
afrobeatsProgressions == << <<1, 5, 6, 4>>, <<6, 4, 1, 5>>, <<2, 5, 1, 1>>,
                            <<1, 4, 5, 4>>, <<4, 1, 5, 6>>, <<6, 5, 4, 5>>,
                            <<1, 6, 4, 5>> >>

\* A variant that indexes the pool by the degree itself (chords[degree])
generateAfrobeatsProgression_OffByOne(chords, s) ==
    LET template == afrobeatsProgressions[RandomInt(s, Len(afrobeatsProgressions)) + 1]
    IN [j \in 1..Len(template) |-> chords[template[j] + 1]]

generateAfrobeatsProgression(chords, s) ==
    LET template == afrobeatsProgressions[RandomInt(s, Len(afrobeatsProgressions)) + 1]
    IN [j \in 1..Len(template) |-> chords[template[j]]]

(***************************************************************************)
(* invertChord.  A note is text: note.slice(0, -1) is its name and         *)
(* parseInt(note.slice(-1), 10) its octave.                                *)
(***************************************************************************)
\* parseInt of one character: its digit value, or NaN (here -1)
ParseIntChar(c) == IndexIn(c, Digits) - 1

\* noteName + (octave + 1): NaN + 1 is NaN and renders as "NaN"
AppendOctaveUp(noteName, octave) ==
    IF octave < 0 THEN noteName \o <<"N","a","N">>
    ELSE noteName \o NatToStr(octave + 1)

\* One iteration of the loop: shift the first note, raise it, push it
InvertStep(inverted) ==
    LET note == Head(inverted)
        noteName == SubSeq(note, 1, Len(note) - 1)
        octave == ParseIntChar(note[Len(note)])
    IN Tail(inverted) \o <<AppendOctaveUp(noteName, octave)>>

RECURSIVE InvertLoop(_, _, _)
InvertLoop(inverted, i, inversion) ==
    IF i < inversion THEN InvertLoop(InvertStep(inverted), i + 1, inversion)
    ELSE inverted

invertChord(notes, inversion) == InvertLoop(notes, 0, inversion)

(***************************************************************************)
(* generateAfrobeatMelody.  The loop state is [melody, rng].               *)
(***************************************************************************)
beats == 4
TicksPerBar == 512
TicksPerSlot == 32

\* bar * 512 + beat * 32 + Math.floor(Math.random() * 10 - 5), s the draw
\* A variant with slots a quarter as wide (beat * 8)
MelodyStartTick_NarrowSlots(bar, beat, s) ==
    bar * TicksPerBar + beat * 8 + (RandomInt(s, 10) - 5)

MelodyStartTick(bar, beat, s) ==
    bar * TicksPerBar + beat * TicksPerSlot + (RandomInt(s, 10) - 5)

\* The body of the inner loop for one (bar, beat)
MelodySlot(notes, bar, beat, st) ==
    IF RandomBelow60(st.rng)
    THEN LET s1 == NextRng(st.rng)
             s2 == NextRng(s1)
             s3 == NextRng(s2)
             s4 == NextRng(s3)
             note == notes[RandomInt(s1, Len(notes)) + 1]
             octave == 5 + RandomInt(s2, 2)
         IN [melody |-> Append(st.melody,
                          [pitch |-> note \o NatToStr(octave),
                           startTick |-> MelodyStartTick(bar, beat, s3),
                           duration |-> "8",
                           velocity |-> RandomInt(s4, 30) + 90]),
             rng |-> NextRng(s4)]
    ELSE [melody |-> st.melody, rng |-> NextRng(st.rng)]

\* TLC evaluates the arguments of an operator lazily; comparing a value
\* evaluates it, which keeps the evaluation of the loops below shallow
Evaluated(v) == v = v

\* for (let beat = 0; beat < beats * 2; beat++)
RECURSIVE MelodyBeats(_, _, _, _)
MelodyBeats(notes, bar, beat, st) ==
    IF beat >= beats * 2 \/ ~Evaluated(st) THEN st
    ELSE MelodyBeats(notes, bar, beat + 1, MelodySlot(notes, bar, beat, st))

\* for (let bar = 0; bar < numberOfBars; bar++)
RECURSIVE MelodyLoop(_, _, _, _)
MelodyLoop(notes, numberOfBars, bar, st) ==
    IF bar >= numberOfBars \/ ~Evaluated(st) THEN st
    ELSE MelodyLoop(notes, numberOfBars, bar + 1, MelodyBeats(notes, bar, 0, st))

\* A variant that resolves the minor pentatonic for a major scale and back
PentatonicNotes_Swapped(scaleRoot, scaleType) ==
    ScaleNotes(scaleRoot \o <<" ">> \o
               (IF scaleType = S_major THEN S_minorPentatonic ELSE S_majorPentatonic))

PentatonicNotes(scaleRoot, scaleType) ==
    ScaleNotes(scaleRoot \o <<" ">> \o
               (IF scaleType = S_major THEN S_majorPentatonic ELSE S_minorPentatonic))

generateAfrobeatMelody(scaleRoot, scaleType, numberOfBars, s) ==
    LET notes == PentatonicNotes(scaleRoot, scaleType)
    IN IF Len(notes) = 0 THEN [melody |-> <<>>, rng |-> s]
       ELSE MelodyLoop(notes, numberOfBars, 0, [melody |-> <<>>, rng |-> s])

DefaultBars == 4

(***************************************************************************)
(* handleGenerateMidi.                                                     *)
(***************************************************************************)
\* Destructuring [rootRaw, typeRaw]: a missing element is undefined, which
\* like "" is falsy; both are <<>> here
TokenAt(tokens, i) == IF Len(tokens) >= i THEN tokens[i] ELSE <<>>
RootRaw(input) == TokenAt(Split(Trim(input)), 1)
TypeRaw(input) == TokenAt(Split(Trim(input)), 2)
RootOf(input) == NoteSimplify(RootRaw(input))
TypeOf(input) == ToLowerCase(TypeRaw(input))

\* The alert of the three early returns, "" when the input passes them
ValidationAlert(input) ==
    IF Len(RootRaw(input)) = 0 \/ Len(TypeRaw(input)) = 0
    THEN "Please enter a valid scale, e.g., 'C minor'"
    ELSE IF TypeOf(input) \notin {S_major, S_minor}
    THEN "Scale type must be 'major' or 'minor'"
    ELSE IF Len(getDiatonicChords(RootOf(input), TypeOf(input))) = 0
    THEN "Could not generate chords for the provided scale."
    ELSE ""

ProgramChangeEvent == [type |-> "program", instrument |-> 1]

\* A variant whose timing offset is Math.floor(Math.random() * 20), not
\* moved down by 10
ChordEvent_OffsetNotCentred(chordSymbol, index, s) ==
    LET chordNotes == ChordNotes(chordSymbol)
        notes == [j \in 1..Len(chordNotes) |-> chordNotes[j] \o <<"4">>]
        inversion == RandomInt(s, 3)
        s1 == NextRng(s)
        velocity == RandomInt(s1, 30) + 80
        s2 == NextRng(s1)
        offset == RandomInt(s2, 20)
    IN [event |-> [type |-> "note",
                   pitch |-> invertChord(notes, inversion),
                   duration |-> "1",
                   startTick |-> index * TicksPerBar + offset,
                   velocity |-> velocity],
        rng |-> NextRng(s2)]

\* The NoteEvent of one chord of the progression; index counts from 0
ChordEvent(chordSymbol, index, s) ==
    LET chordNotes == ChordNotes(chordSymbol)
        notes == [j \in 1..Len(chordNotes) |-> chordNotes[j] \o <<"4">>]
        inversion == RandomInt(s, 3)
        s1 == NextRng(s)
        velocity == RandomInt(s1, 30) + 80
        s2 == NextRng(s1)
        offset == RandomInt(s2, 20) - 10
    IN [event |-> [type |-> "note",
                   pitch |-> invertChord(notes, inversion),
                   duration |-> "1",
                   startTick |-> index * TicksPerBar + offset,
                   velocity |-> velocity],
        rng |-> NextRng(s2)]

\* chordDegrees.forEach: the loop state is [track, rng]
RECURSIVE AddChords(_, _, _)
AddChords(chordDegrees, index, st) ==
    IF index >= Len(chordDegrees) THEN st
    ELSE LET ce == ChordEvent(chordDegrees[index + 1], index, st.rng)
         IN AddChords(chordDegrees, index + 1,
                      [track |-> Append(st.track, ce.event), rng |-> ce.rng])

\* melodyNotes.forEach: one single-pitch NoteEvent per melody note
MelodyEvents(melodyNotes) ==
    [k \in 1..Len(melodyNotes) |->
        [type |-> "note",
         pitch |-> <<melodyNotes[k].pitch>>,
         duration |-> melodyNotes[k].duration,
         startTick |-> melodyNotes[k].startTick,
         velocity |-> melodyNotes[k].velocity]]

\* A variant that adds the melody before the chords
BuildTrack_MelodyFirst(chordDegrees, root, type, s) ==
    LET m == generateAfrobeatMelody(root, type, DefaultBars, s)
        withChords == AddChords(chordDegrees, 0,
                         [track |-> <<ProgramChangeEvent>> \o MelodyEvents(m.melody),
                          rng |-> m.rng])
    IN withChords

\* The track in the order of the addEvent calls, and the random source after
BuildTrack(chordDegrees, root, type, s) ==
    LET withChords == AddChords(chordDegrees, 0,
                                [track |-> <<ProgramChangeEvent>>, rng |-> s])
        m == generateAfrobeatMelody(root, type, DefaultBars, withChords.rng)
    IN [track |-> withChords.track \o MelodyEvents(m.melody), rng |-> m.rng]

\* String.prototype.replace(/[#]/g, "sharp")
RECURSIVE ReplaceSharps(_)
ReplaceSharps(s) ==
    IF Len(s) = 0 THEN <<>>
    ELSE (IF Head(s) = "#" THEN <<"s","h","a","r","p">> ELSE <<Head(s)>>)
         \o ReplaceSharps(Tail(s))

UnsafeChars == {"/", "\\", ":", "*", "?", "\"", "<", ">", "|"}
IsSafeChar(c) == c \notin UnsafeChars

\* String.prototype.replace(/[\/\\:*?"<>|]/g, '')
StripUnsafe(s) == SelectSeq(s, IsSafeChar)

\* A variant whose first replace lacks the g flag: only the first "#" goes
RECURSIVE ReplaceFirstSharp(_)
ReplaceFirstSharp(s) ==
    IF Len(s) = 0 THEN <<>>
    ELSE IF Head(s) = "#" THEN <<"s","h","a","r","p">> \o Tail(s)
    ELSE <<Head(s)>> \o ReplaceFirstSharp(Tail(s))

FileName_FirstSharpOnly(chordDegrees) ==
    StripUnsafe(ReplaceFirstSharp(Join(chordDegrees, <<"_">>))) \o <<".","m","i","d">>

FileName(chordDegrees) ==
    StripUnsafe(ReplaceSharps(Join(chordDegrees, <<"_">>))) \o <<".","m","i","d">>


(***************************************************************************)
(* The page: the input box and the Generate button.                        *)
(***************************************************************************)
In_CMajor == <<"C"," ","m","a","j","o","r">>
In_aMinorPadded == <<" "," ","a"," ","m","i","n","o","r"," ">>
In_FSharpMinor == <<"F","#"," ","m","i","n","o","r">>
In_ESharpMajorCaps == <<"E","#"," ","M","A","J","O","R">>
In_DbMinorExtra == <<"D","b"," ","M","i","n","o","r"," ","b","l","u","e","s">>
In_xy == <<"x"," ","y">>
In_C == <<"C">>
In_Empty == <<>>
In_DoubleSpace == <<"C"," "," ","m","a","j","o","r">>
In_HMajor == <<"H"," ","m","a","j","o","r">>
In_CDorian == <<"C"," ","d","o","r","i","a","n">>
Inputs == {In_CMajor, In_aMinorPadded, In_FSharpMinor, In_ESharpMajorCaps, In_DbMinorExtra, In_xy, In_C, In_Empty, In_DoubleSpace, In_HMajor, In_CDorian}

Idle == [pc |-> "idle"]
NoDownload == [filename |-> <<>>, track |-> <<>>]

Init ==
    /\ scaleInput = In_CMajor
    /\ progression = <<>>
    /\ rng \in 0..(RandMod - 1)
    /\ alerts = 0
    /\ lastAlert = ""
    /\ tracks = 0
    /\ download = NoDownload
    /\ downloads = 0
    /\ displays = 0
    /\ theoryCall = Idle
    /\ invertCall = Idle
    /\ melodyCall = Idle
    /\ fileCall = Idle

\* onChange of the input box
setScaleInput(text) ==
    /\ scaleInput' = text
    /\ UNCHANGED <<progression, rng, alerts, lastAlert, tracks, download,
                   downloads, displays, theoryCall, invertCall, melodyCall, fileCall>>

\* A variant that clears the display on an invalid input
ReportInvalid_ClearsDisplay(message) ==
    /\ alerts' = alerts + 1
    /\ lastAlert' = message
    /\ progression' = <<>>
    /\ UNCHANGED <<rng, tracks, download, downloads, displays>>

\* Lines 86-104: an early return, after its alert
ReportInvalid(message) ==
    /\ alerts' = alerts + 1
    /\ lastAlert' = message
    /\ UNCHANGED <<progression, rng, tracks, download, downloads, displays>>

\* A variant that draws a progression for the display and another one for
\* the track and the filename
GenerateAndDownload_ChoosesTwice ==
    LET root == RootOf(scaleInput)
        type == TypeOf(scaleInput)
        chordPool == getDiatonicChords(root, type)
        shown == generateAfrobeatsProgression(chordPool, rng)
        chordDegrees == generateAfrobeatsProgression(chordPool, NextRng(rng))
        built == BuildTrack(chordDegrees, root, type, NextRng(NextRng(rng)))
    IN /\ progression' = shown
       /\ displays' = displays + 1
       /\ tracks' = tracks + 1
       /\ download' = [filename |-> FileName(chordDegrees), track |-> built.track]
       /\ downloads' = downloads + 1
       /\ rng' = built.rng
       /\ UNCHANGED <<alerts, lastAlert>>

\* Lines 100-153: the progression is chosen once, displayed, written to the
\* track and used for the filename of the download
GenerateAndDownload ==
    LET root == RootOf(scaleInput)
        type == TypeOf(scaleInput)
        chordPool == getDiatonicChords(root, type)
        chordDegrees == generateAfrobeatsProgression(chordPool, rng)
        built == BuildTrack(chordDegrees, root, type, NextRng(rng))
    IN /\ progression' = chordDegrees
       /\ displays' = displays + 1
       /\ tracks' = tracks + 1
       /\ download' = [filename |-> FileName(chordDegrees), track |-> built.track]
       /\ downloads' = downloads + 1
       /\ rng' = built.rng
       /\ UNCHANGED <<alerts, lastAlert>>

\* onClick of the button: the whole handler, synchronous
handleGenerateMidi ==
    /\ alerts + tracks < MaxGenerations
    /\ IF ValidationAlert(scaleInput) # ""
       THEN ReportInvalid(ValidationAlert(scaleInput))
       ELSE GenerateAndDownload
    /\ UNCHANGED <<scaleInput, theoryCall, invertCall, melodyCall, fileCall>>

Next ==
    \/ \E text \in Inputs : setScaleInput(text)
    \/ handleGenerateMidi

Spec == Init /\ [][Next]_vars


(***************************************************************************)
(* getDiatonicChords and generateAfrobeatsProgression on their own: a call *)
(* on any root spelling and either scale type, then a template choice.     *)
(***************************************************************************)
Range(f) == {f[i] : i \in DOMAIN f}

\* The 17 spellings Note.simplify can return, and two roots that are no note
TheoryRoots == Range(SharpNames) \cup Range(FlatNames) \cup {<<>>, <<"H">>}

InitTheory ==
    /\ theoryCall \in [pc : {"called"}, scaleRoot : TheoryRoots,
                       scaleType : {S_major, S_minor},
                       chordPool : {<<>>}, chords : {<<>>}, draw : {0}]
    /\ scaleInput = In_CMajor /\ progression = <<>> /\ rng = 0 /\ alerts = 0
    /\ lastAlert = "" /\ tracks = 0 /\ download = NoDownload /\ downloads = 0
    /\ displays = 0
    /\ invertCall = Idle /\ melodyCall = Idle /\ fileCall = Idle

ResolveChords ==
    /\ theoryCall.pc = "called"
    /\ theoryCall' = [theoryCall EXCEPT
          !.pc = "resolved",
          !.chordPool = getDiatonicChords(theoryCall.scaleRoot, theoryCall.scaleType)]
    /\ UNCHANGED <<homeVars, invertCall, melodyCall, fileCall>>

SelectProgression ==
    /\ theoryCall.pc = "resolved"
    /\ Len(theoryCall.chordPool) > 0
    /\ \E s \in 0..(RandMod - 1) :
          theoryCall' = [theoryCall EXCEPT
             !.pc = "selected",
             !.draw = s,
             !.chords = generateAfrobeatsProgression(theoryCall.chordPool, s)]
    /\ UNCHANGED <<homeVars, invertCall, melodyCall, fileCall>>

NextTheory == ResolveChords \/ SelectProgression

SpecTheory == InitTheory /\ [][NextTheory]_vars

(***************************************************************************)
(* invertChord on its own, one loop iteration per step.                    *)
(***************************************************************************)
MaxNotes == 3

\* A pitch is a name and an octave number; PitchText is how it is written
IntToStr(n) == IF n < 0 THEN <<"-">> \o NatToStr(0 - n) ELSE NatToStr(n)
PitchText(p) == p.name \o IntToStr(p.octave)

SamplePitches == { [name |-> <<"C">>, octave |-> 4],
                   [name |-> <<"E">>, octave |-> 4],
                   [name |-> <<"F","#">>, octave |-> 8],
                   [name |-> <<"B","b">>, octave |-> 0],
                   [name |-> <<"C">>, octave |-> 0 - 1] }

SamplePitchSeqs == UNION {[1..n -> SamplePitches] : n \in 1..MaxNotes}

InitInvert ==
    /\ \E ps \in SamplePitchSeqs, k \in 0..MaxInversion :
          invertCall = [pitches |-> ps,
                        notes |-> [j \in 1..Len(ps) |-> PitchText(ps[j])],
                        inversion |-> k,
                        inverted |-> [j \in 1..Len(ps) |-> PitchText(ps[j])],
                        i |-> 0]
    /\ scaleInput = In_CMajor /\ progression = <<>> /\ rng = 0 /\ alerts = 0
    /\ lastAlert = "" /\ tracks = 0 /\ download = NoDownload /\ downloads = 0
    /\ displays = 0
    /\ theoryCall = Idle /\ melodyCall = Idle /\ fileCall = Idle

InvertIteration ==
    /\ invertCall.i < invertCall.inversion
    /\ invertCall' = [invertCall EXCEPT !.inverted = InvertStep(invertCall.inverted),
                                        !.i = invertCall.i + 1]
    /\ UNCHANGED <<homeVars, theoryCall, melodyCall, fileCall>>

NextInvert == InvertIteration

SpecInvert == InitInvert /\ [][NextInvert]_vars

\* The loop taken step by step returns what the function returns as a whole
InvertStepsAgree ==
    invertCall.i = invertCall.inversion =>
        invertChord(invertCall.notes, invertCall.inversion) = invertCall.inverted

(***************************************************************************)
(* generateAfrobeatMelody on its own, one (bar, beat) iteration per step.  *)
(***************************************************************************)
MelodyRoots == {<<"C">>, <<"F","#">>, <<"E","b">>, <<>>}
S_dorian == <<"d","o","r","i","a","n">>

InitMelody ==
    /\ melodyCall \in [pc : {"called"}, scaleRoot : MelodyRoots,
                       scaleType : {S_major, S_minor, S_dorian},
                       numberOfBars : 0..MaxBars, notes : {<<>>},
                       bar : {0}, beat : {0}, melody : {<<>>},
                       seed : {0}, rng : 0..(RandMod - 1)]
    /\ scaleInput = In_CMajor /\ progression = <<>> /\ rng = 0 /\ alerts = 0
    /\ lastAlert = "" /\ tracks = 0 /\ download = NoDownload /\ downloads = 0
    /\ displays = 0
    /\ theoryCall = Idle /\ invertCall = Idle /\ fileCall = Idle

\* Lines 53-58: the scale lookup and the early return
MelodyResolve ==
    /\ melodyCall.pc = "called"
    /\ LET notes == PentatonicNotes(melodyCall.scaleRoot, melodyCall.scaleType)
       IN melodyCall' = [melodyCall EXCEPT
             !.notes = notes,
             !.seed = melodyCall.rng,
             !.pc = IF Len(notes) = 0 THEN "returned" ELSE "loop"]
    /\ UNCHANGED <<homeVars, theoryCall, invertCall, fileCall>>

\* One pass of the inner loop body, with the loop counters advanced
MelodyIteration ==
    /\ melodyCall.pc = "loop"
    /\ melodyCall.bar < melodyCall.numberOfBars
    /\ LET st == MelodySlot(melodyCall.notes, melodyCall.bar, melodyCall.beat,
                            [melody |-> melodyCall.melody, rng |-> melodyCall.rng])
           last == melodyCall.beat + 1 >= beats * 2
       IN melodyCall' = [melodyCall EXCEPT
             !.melody = st.melody,
             !.rng = st.rng,
             !.beat = IF last THEN 0 ELSE melodyCall.beat + 1,
             !.bar = IF last THEN melodyCall.bar + 1 ELSE melodyCall.bar]
    /\ UNCHANGED <<homeVars, theoryCall, invertCall, fileCall>>

MelodyReturn ==
    /\ melodyCall.pc = "loop"
    /\ melodyCall.bar >= melodyCall.numberOfBars
    /\ melodyCall' = [melodyCall EXCEPT !.pc = "returned"]
    /\ UNCHANGED <<homeVars, theoryCall, invertCall, fileCall>>

NextMelody == MelodyResolve \/ MelodyIteration \/ MelodyReturn

SpecMelody == InitMelody /\ [][NextMelody]_vars

\* The loop taken step by step returns what the function returns as a whole
MelodyStepsAgree ==
    melodyCall.pc = "returned" =>
        generateAfrobeatMelody(melodyCall.scaleRoot, melodyCall.scaleType,
                               melodyCall.numberOfBars, melodyCall.seed)
           = [melody |-> melodyCall.melody, rng |-> melodyCall.rng]

(***************************************************************************)
(* The filename computation on its own, on any list of symbols.            *)
(***************************************************************************)
MaxNameChords == 2

Sym_CSharpMaj == <<"C","#","m","a","j">>
Sym_Dmin == <<"D","m","i","n">>
Sym_FDoubleSharpMin == <<"F","#","#","m","i","n">>
Sym_BbDim == <<"B","b","d","i","m">>
Sym_Slash == <<"A","/","C">>
Sym_Glob == <<"x","*","y","?">>
Sym_Angle == <<"<","#","|",">">>
Sym_Quote == <<"a",":","\"","\\">>
SampleSymbols == {Sym_CSharpMaj, Sym_Dmin, Sym_FDoubleSharpMin, Sym_BbDim, Sym_Slash, Sym_Glob, Sym_Angle, Sym_Quote}

InitFile ==
    /\ \E n \in 1..MaxNameChords : \E cd \in [1..n -> SampleSymbols] :
          fileCall = [pc |-> "called", chordDegrees |-> cd, filename |-> <<>>]
    /\ scaleInput = In_CMajor /\ progression = <<>> /\ rng = 0 /\ alerts = 0
    /\ lastAlert = "" /\ tracks = 0 /\ download = NoDownload /\ downloads = 0
    /\ displays = 0
    /\ theoryCall = Idle /\ invertCall = Idle /\ melodyCall = Idle

ComputeFileName ==
    /\ fileCall.pc = "called"
    /\ fileCall' = [fileCall EXCEPT !.pc = "named",
                                    !.filename = FileName(fileCall.chordDegrees)]
    /\ UNCHANGED <<homeVars, theoryCall, invertCall, melodyCall>>

NextFile == ComputeFileName

SpecFile == InitFile /\ [][NextFile]_vars


(***************************************************************************)
(* Properties.                                                             *)
(***************************************************************************)
ValidRoots == Range(SharpNames) \cup Range(FlatNames)

\* C2: for every valid root getDiatonicChords returns exactly 7 symbols, the
\* i-th being the i-th tone of the scale followed by the i-th quality of
\* [maj,min,min,maj,maj,min,dim] (major) or [min,dim,maj,min,min,maj,maj]
\* (minor); without scale tones it returns the empty sequence; the pool never
\* has a length other than 0 or 7.  C major gives Cmaj Dmin Emin Fmaj Gmaj
\* Amin Bdim.
C2_DiatonicPool ==
    theoryCall.pc # "called" =>
        LET root == theoryCall.scaleRoot
            type == theoryCall.scaleType
            pool == theoryCall.chordPool
            tones == ScaleNotes(root \o <<" ">> \o type)
            qualities == IF type = <<"m","a","j","o","r">>
                         THEN << <<"m","a","j">>, <<"m","i","n">>, <<"m","i","n">>,
                                 <<"m","a","j">>, <<"m","a","j">>, <<"m","i","n">>,
                                 <<"d","i","m">> >>
                         ELSE << <<"m","i","n">>, <<"d","i","m">>, <<"m","a","j">>,
                                 <<"m","i","n">>, <<"m","i","n">>, <<"m","a","j">>,
                                 <<"m","a","j">> >>
        IN /\ Len(pool) \in {0, 7}
           /\ root \in ValidRoots =>
                 /\ Len(pool) = 7
                 /\ Len(tones) = 7
                 /\ \A i \in 1..7 : pool[i] = tones[i] \o qualities[i]
                 /\ pool[1] = root \o qualities[1]
           /\ Len(tones) = 0 => pool = <<>>
           /\ (root = <<"C">> /\ type = S_major) =>
                 pool = << <<"C","m","a","j">>, <<"D","m","i","n">>,
                           <<"E","m","i","n">>, <<"F","m","a","j">>,
                           <<"G","m","a","j">>, <<"A","m","i","n">>,
                           <<"B","d","i","m">> >>

\* A minor scale on a sharpened root has been resolved to its 7 triads
C2_Witness ==
    /\ theoryCall.pc = "resolved"
    /\ theoryCall.scaleRoot = <<"F","#">>
    /\ theoryCall.scaleType = S_minor
    /\ Len(theoryCall.chordPool) = 7
    /\ theoryCall.chordPool[2] = <<"G","#","d","i","m">>

\* C3: for a pool of length 7 and any random choice the selected progression
\* has exactly 4 symbols, the j-th being chordPool[d_j - 1] (counting from 0)
\* for one template (d_1..d_4) of the catalog of 7 templates; every degree is
\* in [1,7], so every symbol is a member of the pool.
C3_ProgressionFromTemplate ==
    /\ Cardinality(Range(afrobeatsProgressions)) = 7
    /\ \A t \in Range(afrobeatsProgressions) :
          Len(t) = 4 /\ \A j \in 1..4 : t[j] \in 1..7
    /\ theoryCall.pc = "selected" =>
          /\ Len(theoryCall.chordPool) = 7
          /\ Len(theoryCall.chords) = 4
          /\ \E t \in Range(afrobeatsProgressions) :
                \A j \in 1..4 : theoryCall.chords[j] = theoryCall.chordPool[t[j]]
          /\ \A j \in 1..4 : theoryCall.chords[j] \in Range(theoryCall.chordPool)

\* The last template (1, 6, 4, 5) has been selected on the pool of C major
C3_Witness ==
    /\ theoryCall.pc = "selected"
    /\ theoryCall.scaleRoot = <<"C">>
    /\ theoryCall.scaleType = S_major
    /\ theoryCall.chords = << <<"C","m","a","j">>, <<"A","m","i","n">>,
                              <<"F","m","a","j">>, <<"G","m","a","j">> >>


\* How often the note at position p (from 1) of n notes has been moved from
\* the front to the end after k iterations
TimesMoved(p, n, k) == (k + n - p) \div n

\* The notes rotated left by k mod n, each raised by the octaves it was moved
RotatedAndRaised(pitches, k) ==
    LET n == Len(pitches)
    IN [j \in 1..n |->
          LET p == ((j - 1 + k) % n) + 1
          IN PitchText([name |-> pitches[p].name,
                        octave |-> pitches[p].octave + TimesMoved(p, n, k)])]

\* C4: for n >= 1 notes and any inversionCount k >= 0 (including k > n)
\* invertChord returns the notes rotated left by k mod n, each note keeping
\* its name and having its octave raised by the number of times it was moved
\* from the front to the end; invert(notes, 0) = notes, and invert(notes, n)
\* is notes with every note one octave higher.
C4_InvertRotatesAndRaises ==
    invertCall.i = invertCall.inversion =>
        /\ invertCall.inverted = RotatedAndRaised(invertCall.pitches, invertCall.inversion)
        /\ invertCall.inversion = 0 => invertCall.inverted = invertCall.notes
        /\ invertCall.inversion = Len(invertCall.notes) =>
              invertCall.inverted =
                 [j \in 1..Len(invertCall.pitches) |->
                    PitchText([name |-> invertCall.pitches[j].name,
                               octave |-> invertCall.pitches[j].octave + 1])]

\* The part of C4 the code keeps: while every octave read is a single digit
\* (octaves 0..9 on the way) the result is the rotation with raised octaves
C4_HoldsForOneDigitOctaves ==
    (/\ invertCall.i = invertCall.inversion
     /\ \A p \in 1..Len(invertCall.pitches) :
           /\ invertCall.pitches[p].octave >= 0
           /\ invertCall.pitches[p].octave
                 + TimesMoved(p, Len(invertCall.pitches), invertCall.inversion) <= 10)
    => invertCall.inverted = RotatedAndRaised(invertCall.pitches, invertCall.inversion)

\* The same text with one replacement per character
CharForName(c) == IF c = "#" THEN <<"s","h","a","r","p">>
                  ELSE IF c \in {"/", "\\", ":", "*", "?", "\"", "<", ">", "|"} THEN <<>>
                  ELSE <<c>>
RECURSIVE Concat(_)
Concat(parts) == IF Len(parts) = 0 THEN <<>> ELSE Head(parts) \o Concat(Tail(parts))

\* C7: the filename is the chord symbols joined by "_", every "#" replaced by
\* "sharp" and every character among / \ : * ? " < > | removed, followed by
\* ".mid"; it holds no "#" and none of those characters; ["C#maj","Dmin"]
\* gives "Csharpmaj_Dmin.mid".
C7_FileName ==
    fileCall.pc = "named" =>
        LET joined == Join(fileCall.chordDegrees, <<"_">>)
            name == fileCall.filename
        IN /\ name = Concat([i \in 1..Len(joined) |-> CharForName(joined[i])])
                        \o <<".","m","i","d">>
           /\ \A i \in 1..Len(name) :
                 name[i] \notin {"#", "/", "\\", ":", "*", "?", "\"", "<", ">", "|"}
           /\ fileCall.chordDegrees = <<Sym_CSharpMaj, Sym_Dmin>> =>
                 name = <<"C","s","h","a","r","p","m","a","j","_",
                          "D","m","i","n",".","m","i","d">>

\* A name has been computed from a symbol with two sharps and one with
\* unsafe characters
C7_Witness ==
    /\ fileCall.pc = "named"
    /\ fileCall.chordDegrees = <<Sym_FDoubleSharpMin, Sym_Angle>>
    /\ fileCall.filename = <<"F","s","h","a","r","p","s","h","a","r","p","m","i","n",
                             "_","s","h","a","r","p",".","m","i","d">>


\* The pentatonic pitch classes by scale degree: degrees 1 2 3 5 6 of the
\* major scale, degrees 1 3 4 5 7 of the natural minor scale
PentatonicByDegree(root, type) ==
    LET scale == ScaleNotes(root \o <<" ">> \o (IF type = S_major THEN S_major ELSE S_minor))
    IN IF Len(scale) = 0 THEN {}
       ELSE IF type = S_major THEN {scale[1], scale[2], scale[3], scale[5], scale[6]}
       ELSE {scale[1], scale[3], scale[4], scale[5], scale[7]}

\* Iterations of the inner loop completed so far
SlotsDone == melodyCall.bar * 8 + melodyCall.beat

C8_NonMonotonicPossible ==
    melodyCall.numberOfBars >= 1 =>
        \E b1, b2 \in 0..(melodyCall.numberOfBars - 1) :
           \E k1, k2 \in 0..(beats * 2 - 1) :
              \E s1, s2 \in 0..(RandMod - 1) :
                 /\ b1 < b2 \/ (b1 = b2 /\ k1 < k2)
                 /\ MelodyStartTick(b2, k2, s2) < MelodyStartTick(b1, k1, s1)

\* C8, amended: melody events are produced in ascending (bar, slot) order
\* with startTick = bar*512 + slot*32 + jitter, jitter an integer in [-5,4],
\* and their startTick values are strictly increasing in production order
\* (two slots are 32 ticks apart and the jitter moves a tick by at most 9).
C8_MelodyTicksAscend ==
    [][ LET before == melodyCall.melody
            after == melodyCall'.melody
        IN /\ after # before =>
                /\ after = Append(before, after[Len(after)])
                /\ after[Len(after)].startTick
                      - (melodyCall.bar * 512 + melodyCall.beat * 32) \in (0 - 5)..4
                /\ \/ melodyCall'.bar > melodyCall.bar
                   \/ /\ melodyCall'.bar = melodyCall.bar
                      /\ melodyCall'.beat > melodyCall.beat
           /\ \A i, j \in 1..Len(after) :
                 i < j => after[i].startTick < after[j].startTick
      ]_vars

\* Two events of neighbouring slots, the later one with the smaller jitter:
\* their ticks are less than a slot apart and still in order
C8_Witness ==
    /\ melodyCall.pc = "returned"
    /\ \E k \in 1..(Len(melodyCall.melody) - 1) :
          /\ melodyCall.melody[k + 1].startTick - melodyCall.melody[k].startTick < 28
          /\ melodyCall.melody[k].startTick < melodyCall.melody[k + 1].startTick


\* The modelled inputs that fail, by the way they fail
InputsMissingToken == {In_C, In_Empty, In_DoubleSpace}
InputsBadType == {In_xy, In_CDorian}
InputsNoChords == {In_HMajor}
FailingInputs == InputsMissingToken \cup InputsBadType \cup InputsNoChords

\* C1: a Generate action whose input fails (a missing root or type token, a
\* type other than major or minor after lowercasing, a root with an empty
\* chord pool) notifies the user, builds no track, downloads no file and
\* leaves the displayed progression as it was; no action produces a display
\* without a file or a file without a display.
C1_FailedGenerateChangesNothing ==
    [][ (alerts' + tracks' # alerts + tracks) =>
          /\ scaleInput \in FailingInputs =>
                /\ alerts' = alerts + 1
                /\ scaleInput \in InputsMissingToken =>
                      lastAlert' = "Please enter a valid scale, e.g., 'C minor'"
                /\ scaleInput \in InputsBadType =>
                      lastAlert' = "Scale type must be 'major' or 'minor'"
                /\ scaleInput \in InputsNoChords =>
                      lastAlert' = "Could not generate chords for the provided scale."
                /\ tracks' = tracks
                /\ downloads' = downloads
                /\ download' = download
                /\ displays' = displays
                /\ progression' = progression
          /\ scaleInput \notin FailingInputs => alerts' = alerts
          /\ displays' - displays = downloads' - downloads
          /\ (progression' # progression) => downloads' = downloads + 1
      ]_vars

\* After a generation that succeeded, one with a root that is no note has
\* alerted and the display still shows the progression
C1_Witness ==
    /\ scaleInput = In_HMajor
    /\ alerts = 1
    /\ lastAlert = "Could not generate chords for the provided scale."
    /\ downloads = 1
    /\ Len(progression) = 4

\* The pitch classes of the pitches of an event (a pitch is a pitch class
\* followed by one octave digit)
PitchClassesOf(pitches) ==
    {SubSeq(pitches[j], 1, Len(pitches[j]) - 1) : j \in 1..Len(pitches)}

\* C6: in a successful generation the events are added in this order: one
\* program change (instrument 1), then the 4 multi-pitch chord events in
\* progression order, then the single-pitch melody events (at most 32) in the
\* order they were generated, which is that of their ticks; no chord follows
\* a melody event and nothing is reordered by startTick.
C6_TrackOrder ==
    downloads > 0 =>
        LET t == download.track
        IN /\ Len(t) >= 5 /\ Len(t) <= 5 + 32
           /\ t[1] = [type |-> "program", instrument |-> 1]
           /\ \A k \in 2..Len(t) : t[k].type = "note"
           /\ \A i \in 1..4 :
                 /\ Len(t[i + 1].pitch) > 1
                 /\ t[i + 1].duration = "1"
                 /\ PitchClassesOf(t[i + 1].pitch) = Range(ChordNotes(progression[i]))
                 /\ t[i + 1].startTick \in (512 * (i - 1) - 10)..(512 * (i - 1) + 9)
           /\ \A k \in 6..Len(t) :
                 /\ Len(t[k].pitch) = 1
                 /\ t[k].duration = "8"
                 /\ k > 6 => t[k - 1].startTick < t[k].startTick

\* A track whose first melody event starts before its last three chords: the
\* events are in the order they were added, not in the order of their ticks
C6_Witness ==
    /\ downloads > 0
    /\ Len(download.track) > 5 + 16
    /\ download.track[6].startTick < download.track[3].startTick
    /\ download.track[6].startTick < download.track[5].startTick

\* C9: the chord event of index i (0..3) has duration '1', startTick in
\* [i*512 - 10, i*512 + 9] (negative only for i = 0), velocity in [80,109] and
\* as pitches invert(chord notes at octave 4, k) for a k in {0,1,2}: as many
\* notes as the chord, exactly k of them at octave 5, the rest at octave 4.
C9_ChordEvents ==
    downloads > 0 =>
        \A i \in 0..3 :
           LET e == download.track[i + 2]
               chord == ChordNotes(progression[i + 1])
               n == Len(chord)
           IN /\ e.duration = "1"
              /\ e.startTick >= i * 512 - 10 /\ e.startTick <= i * 512 + 9
              /\ e.startTick < 0 => i = 0
              /\ e.velocity >= 80 /\ e.velocity <= 109
              /\ n = 3
              /\ Len(e.pitch) = n
              /\ \E k \in 0..2 :
                    /\ e.pitch = [j \in 1..n |->
                                    chord[((j - 1 + k) % n) + 1]
                                       \o (IF j > n - k THEN <<"5">> ELSE <<"4">>)]
                    /\ Cardinality({j \in 1..n : e.pitch[j][Len(e.pitch[j])] = "5"}) = k
                    /\ Cardinality({j \in 1..n : e.pitch[j][Len(e.pitch[j])] = "4"}) = n - k

\* The first chord starts before tick 0 in second inversion, and another
\* chord of the same track is in root position
C9_Witness ==
    /\ downloads > 0
    /\ download.track[2].startTick < 0
    /\ download.track[2].pitch[2][Len(download.track[2].pitch[2])] = "5"
    /\ \E i \in 3..5 : \A j \in 1..3 :
          download.track[i].pitch[j][Len(download.track[i].pitch[j])] = "4"

\* A progression on display, the last file and the two counts belong together
Matches(shown, file, nFiles, nShown) ==
    /\ nFiles = nShown
    /\ nShown = 0 => shown = <<>> /\ file = NoDownload
    /\ nShown > 0 =>
          /\ Len(shown) = 4
          /\ LET joined == Join(shown, <<"_">>)
             IN file.filename =
                   Concat([i \in 1..Len(joined) |-> CharForName(joined[i])])
                      \o <<".","m","i","d">>
          /\ \A i \in 1..4 :
                /\ Len(file.track[i + 1].pitch) = 3
                /\ PitchClassesOf(file.track[i + 1].pitch) = Range(ChordNotes(shown[i]))

\* C10: after any sequence of Generate actions the display is empty (no
\* generation has succeeded) or shows the 4 chords chosen by the most recent
\* generation that passed validation; those chords are the ones written to
\* that generation's track and used for its filename; as many files were
\* downloaded as the display was set.
C10_DisplayIsLastGeneration ==
    [][ /\ downloads = displays
        /\ displays = 0 => progression = <<>> /\ download = NoDownload
        /\ IF alerts' + tracks' = alerts + tracks
           THEN \* no generation: the display and the files stay
                /\ progression' = progression /\ displays' = displays
                /\ download' = download /\ downloads' = downloads
           ELSE IF scaleInput \in FailingInputs
           THEN \* a generation that failed validation
                /\ progression' = progression /\ displays' = displays
                /\ download' = download /\ downloads' = downloads
           ELSE \* a generation that passed validation
                LET pool == getDiatonicChords(RootOf(scaleInput), TypeOf(scaleInput))
                IN /\ displays' = displays + 1
                   /\ \E t \in Range(afrobeatsProgressions) :
                         progression' = [j \in 1..4 |-> pool[t[j]]]
                   /\ Matches(progression', download', downloads', displays')
      ]_vars

\* A second successful generation, in another key, has replaced the display
C10_Witness ==
    /\ displays = 2
    /\ downloads = 2
    /\ scaleInput = In_FSharpMinor
    /\ Len(progression) = 4
    /\ progression[1] \in {<<"F","#","m","i","n">>, <<"D","m","a","j">>,
                           <<"G","#","d","i","m">>, <<"B","m","i","n">>}

=============================================================================
